---- MODULE Spec2Model ----
(***************************************************************************)
(* State-machine model of the adaptive decision-and-verification loop of   *)
(* the job application agent (src/job_agent10.py), with the memory         *)
(* loaders and savers of its sibling versions.                             *)
(***************************************************************************)
EXTENDS Integers, Sequences, FiniteSets, TLC

VARIABLES
  memory,         \* the in-process store: action_history, action_sequences, stuck_detection
  file,           \* what MEMORY_FILE holds on disk
  now,            \* the wall clock, in seconds
  page,           \* the page the browser shows
  dead,           \* TRUE once the browser session is unusable (driver calls raise)
  pc,             \* position of the running function
  step_num,       \* main: loop variable
  attempt,        \* execute_step: loop variable
  initial_state,  \* execute_step: state captured at the start of the step
  page_info,      \* execute_step: analysis made at the start of the step
  last_error,     \* execute_step: error of the previous attempt, or None
  success,        \* execute_step: result flag
  action,         \* execute_step: action decided for the current attempt
  verdict,        \* execute_step: what states_are_different returned last
  outcome,        \* main: how the run ended
  env,            \* what the environment may still do (budgets)
  agent,          \* job_agent_clean: the fields stuck_counter and last_url of the agent
  ret,            \* return value of the last function call
  calls,          \* history: the observations made by detect_stuck_pattern, per key
  appended,       \* history: every record given to record_action, in order
  hist            \* history: bookkeeping of the run (attempts, records, saves)

vars == <<memory, file, now, page, dead, pc, step_num, attempt, initial_state,
          page_info, last_error, success, action, verdict, outcome, env, agent, ret,
          calls, appended, hist>>

None == "None"              \* Python's None where a string is expected
NoTime == 0 - 1              \* Python's None where a time is expected
NoRecord == [none |-> TRUE]  \* Python's None where a dict is expected
NoAgent == [stuck_counter |-> 0, last_url |-> ""]  \* JobApplicationAgent.__init__

----------------------------------------------------------------------------
(* Program constants *)

WINDOW == 300          \* detect_stuck_pattern: "within last 5 minutes"
THRESHOLD == 3         \* detect_stuck_pattern: count >= 3
HISTORY_CAP == 100     \* record_action: keep only last 100 actions
ESCALATED_COUNT == 10  \* execute_step: count forced after a successful fill
SETTLE == 2            \* execute_step: time.sleep(2) before the second capture
RECENT == 5            \* main: "last 5 actions"
BUTTON_CUT == 5        \* create_page_signature: "Only take first 5 buttons"
SELECTOR_CUT == 5      \* job_agent9improved.record_action: "Store up to 5 selectors"
NEXT_STRATEGIES == 5   \* click_next: four groups of button texts, then any button
SIGN_IN_STRATEGIES == 6  \* click_sign_in_button code: "Strategy 1" .. "Strategy 6"
HISTORY_KEEP9 == 200    \* job_agent9improved.save_agent_memory: "Keep last 200 actions"
FAILURES_KEEP9 == 50    \* job_agent9improved.save_agent_memory: "Keep last 50 failure patterns"
STUCK_THRESHOLD == 3   \* job_agent_clean: Config.STUCK_THRESHOLD

(* Bounds of the model *)

MAX_RETRIES == 2       \* attempts per step (10 in the source)
max_steps == 3         \* steps per run (20 in the source)
RecoverAfter == 1      \* main: recovery is tried when step_num > this (10 in the source)
MaxCalls == 4          \* observations in the detector's own specification
MaxTicks == 3          \* clock advances in the detector's own specification
MaxRaises == 1         \* exceptions the generated code raises in one run
MaxAppends == 3        \* record_action calls in the store's own specification
MaxButtons == 6        \* buttons of a page_info given to create_page_signature
MAX_STEPS == 3         \* job_agent9improved: steps per run (50 in the source)
CleanMaxSteps == 5     \* job_agent_clean: steps per run (Config.MAX_STEPS, 30 in the source)

----------------------------------------------------------------------------
(* The browser: pages and what the driver reads from them *)

PageNames == {"cookie", "signin", "filled", "form", "typed", "done"}

\* Other snapshots a driver can show: the sign-in dialog with only the email
\* typed, a sign-in form that is not in a dialog, and the sign-in dialog with
\* another body text, another title, another query string.
Variants == {"partial", "inline", "signin_text", "signin_title", "signin_query"}

Snapshots == PageNames \cup Variants

\* What the driver's queries return on each page.
PageDef(p) ==
  CASE p = "cookie" ->
         [url |-> "/apply", path |-> "/apply", title |-> "Careers", n_inputs |-> 0, n_buttons |-> 1,
          n_modals |-> 0, body |-> "We use cookies", body_len |-> 14,
          visible_modals |-> 0, input_values |-> <<>>, sign_in |-> FALSE,
          cred_filled |-> 0, password_filled |-> FALSE, cookie_button |-> TRUE]
    [] p = "signin" ->
         [url |-> "/apply", path |-> "/apply", title |-> "Careers", n_inputs |-> 2, n_buttons |-> 2,
          n_modals |-> 1, body |-> "Sign In", body_len |-> 7,
          visible_modals |-> 1, input_values |-> <<>>, sign_in |-> TRUE,
          cred_filled |-> 0, password_filled |-> FALSE, cookie_button |-> FALSE]
    [] p = "filled" ->
         [url |-> "/apply", path |-> "/apply", title |-> "Careers", n_inputs |-> 2, n_buttons |-> 2,
          n_modals |-> 1, body |-> "Sign In", body_len |-> 7,
          visible_modals |-> 1, input_values |-> <<"email", "password">>,
          sign_in |-> TRUE, cred_filled |-> 2, password_filled |-> TRUE, cookie_button |-> FALSE]
    [] p = "form" ->
         [url |-> "/apply/form", path |-> "/apply/form", title |-> "My Information", n_inputs |-> 4,
          n_buttons |-> 2, n_modals |-> 0, body |-> "My Information", body_len |-> 14,
          visible_modals |-> 0, input_values |-> <<>>, sign_in |-> FALSE,
          cred_filled |-> 0, password_filled |-> FALSE, cookie_button |-> FALSE]
    [] p = "typed" ->
         [url |-> "/apply/form", path |-> "/apply/form", title |-> "My Information", n_inputs |-> 4,
          n_buttons |-> 2, n_modals |-> 0, body |-> "My Information", body_len |-> 14,
          visible_modals |-> 0, input_values |-> <<"name">>, sign_in |-> FALSE,
          cred_filled |-> 0, password_filled |-> FALSE, cookie_button |-> FALSE]
    [] p = "partial" ->
         [url |-> "/apply", path |-> "/apply", title |-> "Careers", n_inputs |-> 2,
          n_buttons |-> 2, n_modals |-> 1, body |-> "Sign In", body_len |-> 7,
          visible_modals |-> 1, input_values |-> <<"email">>,
          sign_in |-> TRUE, cred_filled |-> 1, password_filled |-> FALSE,
          cookie_button |-> FALSE]
    [] p = "inline" ->
         [url |-> "/login", path |-> "/login", title |-> "Sign In", n_inputs |-> 2,
          n_buttons |-> 1, n_modals |-> 0, body |-> "Sign In", body_len |-> 7,
          visible_modals |-> 0, input_values |-> <<>>,
          sign_in |-> TRUE, cred_filled |-> 0, password_filled |-> FALSE,
          cookie_button |-> FALSE]
    [] p = "signin_text" ->
         [url |-> "/apply", path |-> "/apply", title |-> "Careers", n_inputs |-> 2,
          n_buttons |-> 2, n_modals |-> 1, body |-> "Sign In Invalid password",
          body_len |-> 24, visible_modals |-> 1, input_values |-> <<>>,
          sign_in |-> TRUE, cred_filled |-> 0, password_filled |-> FALSE,
          cookie_button |-> FALSE]
    [] p = "signin_title" ->
         [url |-> "/apply", path |-> "/apply", title |-> "Careers (1)", n_inputs |-> 2,
          n_buttons |-> 2, n_modals |-> 1, body |-> "Sign In", body_len |-> 7,
          visible_modals |-> 1, input_values |-> <<>>,
          sign_in |-> TRUE, cred_filled |-> 0, password_filled |-> FALSE,
          cookie_button |-> FALSE]
    [] p = "signin_query" ->
         [url |-> "/apply?source=LinkedIn", path |-> "/apply", title |-> "Careers",
          n_inputs |-> 2, n_buttons |-> 2, n_modals |-> 1, body |-> "Sign In",
          body_len |-> 7, visible_modals |-> 1, input_values |-> <<>>,
          sign_in |-> TRUE, cred_filled |-> 0, password_filled |-> FALSE,
          cookie_button |-> FALSE]
    [] OTHER ->
         [url |-> "/apply/success", path |-> "/apply/success", title |-> "Application", n_inputs |-> 0,
          n_buttons |-> 0, n_modals |-> 0, body |-> "Thank you for applying",
          body_len |-> 22, visible_modals |-> 0, input_values |-> <<>>,
          sign_in |-> FALSE, cred_filled |-> 0, password_filled |-> FALSE, cookie_button |-> FALSE]

\* "success" in url.lower()
UrlHasSuccess(url) == url \in {"/apply/success"}

\* "thank" in title.lower()
TitleHasThank(title) == title \in {"Thank you"}

\* generate_page_signature: the digest of url|title|#input|#button|#modal|body[:500].
\* The digest is taken to be injective on the joined parts.
generate_page_signature(p) ==
  LET d == PageDef(p)
  IN  <<d.url, d.title, d.n_inputs, d.n_buttons, d.n_modals, d.body>>

Signatures == {generate_page_signature(p) : p \in PageNames}

----------------------------------------------------------------------------
(* The stuck detector *)

StuckKey(page_signature, action_type) == <<page_signature, action_type>>

NewStuckInfo == [count |-> 0, last_time |-> NoTime]

\* A detector that never resets the count when the window has elapsed.
StuckCountNoReset(info, t) ==
  IF info.last_time # NoTime THEN info.count + 1 ELSE 1

\* The count detect_stuck_pattern stores for an entry observed at time t.
StuckCount(info, t) ==
  IF info.last_time # NoTime
  THEN IF t - info.last_time < WINDOW THEN info.count + 1 ELSE 1
  ELSE 1

\* memory["stuck_detection"] after detect_stuck_pattern(memory, sig, kind) at time t.
StuckAfter(sd, key, t) ==
  LET info == IF key \in DOMAIN sd THEN sd[key] ELSE NewStuckInfo
  IN  [k \in (DOMAIN sd) \cup {key} |->
         IF k = key THEN [count |-> StuckCount(info, t), last_time |-> t]
                    ELSE sd[k]]

\* The value detect_stuck_pattern returns.
StuckReturn(sd, key, t) == StuckAfter(sd, key, t)[key].count >= THRESHOLD

EmptyMap == [k \in {} |-> NoRecord]

EmptyMemory ==
  [action_history |-> <<>>, action_sequences |-> EmptyMap, stuck_detection |-> EmptyMap]

----------------------------------------------------------------------------
(* The memory store *)

ActionTypes == {"fill_sign_in_form", "click_sign_in_button", "accept_cookies", "navigate"}

\* generate_action_code: one code text per branch; any other type gets the
\* generic navigation code.
generate_action_code(act) ==
  IF act.action_type \in {"fill_sign_in_form", "click_sign_in_button", "accept_cookies"}
  THEN act.action_type
  ELSE "navigate"

Min(a, b) == IF a < b THEN a ELSE b

\* Python's seq[-n:]
LastN(seq, n) == SubSeq(seq, Len(seq) - Min(n, Len(seq)) + 1, Len(seq))

\* Python's seq[:n]
FirstN(seq, n) == SubSeq(seq, 1, Min(n, Len(seq)))

\* A pruning that keeps the oldest records instead of the newest.
PruneOldest(history) ==
  IF Len(history) > HISTORY_CAP THEN FirstN(history, HISTORY_CAP) ELSE history

\* record_action, lines 635-637: keep only the last 100 actions.
Prune(history) ==
  IF Len(history) > HISTORY_CAP THEN LastN(history, HISTORY_CAP) ELSE history

ActionRecord(page_signature, act, code, ok, error_msg, t) ==
  [timestamp |-> t, page_signature |-> page_signature, action |-> act,
   code_snippet |-> code, success |-> ok, error |-> error_msg]

\* The store after record_action(memory, page_signature, action, code, success, error_msg).
record_action(mem, page_signature, act, code, ok, error_msg, t) ==
  LET seqs == mem.action_sequences
      old  == IF page_signature \in DOMAIN seqs THEN seqs[page_signature] ELSE <<>>
  IN  [mem EXCEPT
         !.action_history =
            Prune(Append(@, ActionRecord(page_signature, act, code, ok, error_msg, t))),
         !.action_sequences =
            [s \in (DOMAIN seqs) \cup {page_signature} |->
               IF s = page_signature THEN Append(old, act.action_type) ELSE seqs[s]]]

RECURSIVE ScanBack(_, _, _)
\* The loop over reversed(history), from index i down.
ScanBack(history, page_signature, i) ==
  IF i = 0 THEN NoRecord
  ELSE IF history[i].page_signature = page_signature /\ history[i].success
       THEN history[i]
       ELSE ScanBack(history, page_signature, i - 1)

RECURSIVE ScanForward(_, _, _)
\* A lookup that walks the history oldest first.
ScanForward(history, page_signature, i) ==
  IF i > Len(history) THEN NoRecord
  ELSE IF history[i].page_signature = page_signature /\ history[i].success
       THEN history[i]
       ELSE ScanForward(history, page_signature, i + 1)

FirstSuccessfulAction(mem, page_signature) ==
  ScanForward(mem.action_history, page_signature, 1)

get_last_successful_action(mem, page_signature) ==
  ScanBack(mem.action_history, page_signature, Len(mem.action_history))

----------------------------------------------------------------------------
(* Observation and decision *)

\* capture_page_state(driver) on page p.
capture_page_state(p) ==
  LET d == PageDef(p)
  IN  [url |-> d.url, title |-> d.title, body_text_sample |-> d.body,
       body_len |-> d.body_len, visible_modals |-> d.visible_modals,
       input_values |-> d.input_values]

\* analyze_page_enhanced(driver, memory) on page p.
analyze_page_enhanced(p) ==
  LET d == PageDef(p)
  IN  [url |-> d.url, title |-> d.title,
       page_signature |-> generate_page_signature(p),
       modals_detected |-> d.visible_modals > 0,
       sign_in_detected |-> d.sign_in,
       form_filled |-> d.cred_filled > 0,
       cookie_buttons |-> d.cookie_button]

ClickSignIn(using_memory) ==
  [action_type |-> "click_sign_in_button", target |-> "Sign In Submit Button",
   using_memory |-> using_memory]

\* generate_smart_action, lines 260-299: the decision tree on the page state.
DecisionTree(pi) ==
  IF pi.modals_detected /\ pi.sign_in_detected
  THEN IF ~pi.form_filled
       THEN [action_type |-> "fill_sign_in_form", target |-> "Email and Password fields",
             using_memory |-> FALSE]
       ELSE ClickSignIn(FALSE)
  ELSE IF pi.cookie_buttons
       THEN [action_type |-> "accept_cookies", target |-> "legalNoticeAcceptButton",
             using_memory |-> FALSE]
       ELSE [action_type |-> "navigate", target |-> "Next/Continue button",
             using_memory |-> FALSE]

\* A replay that keeps the kind of the remembered action but not its target.
ReplayKindOnly(last_success) ==
  [action_type |-> last_success.action.action_type,
   target |-> "", using_memory |-> TRUE]

\* generate_smart_action, lines 249-258: replay of the last success.
Replay(last_success) ==
  [action_type |-> last_success.action.action_type,
   target |-> last_success.action.target, using_memory |-> TRUE]

\* A decision that consults the last success before the stuck detector's verdict.
SmartActionReplayFirst(pi, mem, err, t) ==
  LET key   == StuckKey(pi.page_signature, "fill_form")
      asked == pi.sign_in_detected /\ pi.form_filled
      sd    == IF asked THEN StuckAfter(mem.stuck_detection, key, t)
                        ELSE mem.stuck_detection
      stuck == asked /\ StuckReturn(mem.stuck_detection, key, t)
      last  == get_last_successful_action(mem, pi.page_signature)
  IN  [action |-> IF last # NoRecord /\ err = None THEN Replay(last)
                  ELSE IF stuck THEN ClickSignIn(TRUE)
                  ELSE DecisionTree(pi),
       stuck_detection |-> sd, asked |-> asked, stuck |-> stuck]

\* generate_smart_action(page_info, memory, resume_data, last_error) at time t:
\* the action returned, and memory["stuck_detection"] after the call.
generate_smart_action(pi, mem, err, t) ==
  LET key   == StuckKey(pi.page_signature, "fill_form")
      asked == pi.sign_in_detected /\ pi.form_filled
      sd    == IF asked THEN StuckAfter(mem.stuck_detection, key, t)
                        ELSE mem.stuck_detection
      stuck == asked /\ StuckReturn(mem.stuck_detection, key, t)
      last  == get_last_successful_action(mem, pi.page_signature)
  IN  [action |-> IF stuck THEN ClickSignIn(TRUE)
                  ELSE IF last # NoRecord /\ err = None THEN Replay(last)
                  ELSE DecisionTree(pi),
       stuck_detection |-> sd, asked |-> asked, stuck |-> stuck]

\* states_are_different(state1, state2)
states_are_different(state1, state2) ==
  IF state1.url # state2.url
  THEN [changed |-> TRUE, result |-> "success", reason |-> "URL changed"]
  ELSE IF state1.visible_modals # state2.visible_modals
  THEN IF state2.visible_modals < state1.visible_modals
       THEN [changed |-> TRUE, result |-> "success", reason |-> "Modal closed"]
       ELSE [changed |-> TRUE, result |-> "likely_success", reason |-> "Modal state changed"]
  ELSE IF state1.input_values # state2.input_values
          /\ Len(state2.input_values) > Len(state1.input_values)
  THEN [changed |-> TRUE, result |-> "likely_success", reason |-> "Form filled"]
  ELSE IF state1.input_values # state2.input_values
          /\ Len(state2.input_values) < Len(state1.input_values)
  THEN [changed |-> TRUE, result |-> "likely_success", reason |-> "Form cleared/submitted"]
  ELSE IF state1.body_text_sample # state2.body_text_sample
          /\ 2 * state2.body_len < state1.body_len
  THEN [changed |-> TRUE, result |-> "likely_success",
        reason |-> "Page content changed significantly"]
  ELSE IF state1.body_text_sample # state2.body_text_sample
          /\ 2 * state2.body_len > 3 * state1.body_len
  THEN [changed |-> TRUE, result |-> "likely_success", reason |-> "New content loaded"]
  ELSE [changed |-> FALSE, result |-> "no_change",
        reason |-> "No meaningful change detected"]

----------------------------------------------------------------------------
(* Shared pieces of the specifications *)

StuckKeys == {StuckKey(s, "fill_form") : s \in Signatures}

NoReturn == [op |-> "none"]

runVars == <<page, dead, pc, step_num, attempt, initial_state, page_info,
             last_error, success, action, verdict, outcome, env, agent>>

NoHist == [ticks |-> 0, calls |-> 0, appends |-> 0, attempts |-> 0, final_saves |-> 0, quit_raised |-> FALSE,
           confirmed |-> 0 - 1]

\* The file between open(MEMORY_FILE, 'w') and the end of json.dump.
Truncated == [kind |-> "partial"]

Missing == [kind |-> "missing"]

\* No run of main is in progress.
RunIdle ==
  /\ page = "cookie" /\ dead = FALSE /\ pc = "idle"
  /\ step_num = 0 /\ attempt = 0
  /\ initial_state = NoRecord /\ page_info = NoRecord /\ last_error = None
  /\ success = FALSE /\ action = NoRecord /\ verdict = NoRecord /\ outcome = None
  /\ env = [raises |-> 0] /\ agent = NoAgent

----------------------------------------------------------------------------
(* Specification of the stuck detector alone: calls of detect_stuck_pattern  *)
(* on a store that starts without entries, while the clock advances.         *)

DetectorKeys ==
  {StuckKey(generate_page_signature(p), "fill_form") : p \in {"signin", "form"}}

Delays == {1, WINDOW - 1}

InitStuck ==
  /\ memory = EmptyMemory /\ file = Missing /\ now = 0
  /\ RunIdle
  /\ ret = NoReturn /\ calls = [k \in StuckKeys |-> <<>>] /\ appended = <<>>
  /\ hist = NoHist

\* detect_stuck_pattern(memory, page_signature, action_type)
DetectStuck(key) ==
  /\ hist.calls < MaxCalls
  /\ memory' = [memory EXCEPT !.stuck_detection = StuckAfter(@, key, now)]
  /\ ret' = [op |-> "detect_stuck_pattern", key |-> key,
             value |-> StuckReturn(memory.stuck_detection, key, now)]
  /\ calls' = [calls EXCEPT ![key] = Append(@, [t |-> now, r |-> ret'.value])]
  /\ hist' = [hist EXCEPT !.calls = @ + 1]
  /\ UNCHANGED <<file, now, runVars, appended>>

\* Time passes between two calls.
Tick(d) ==
  /\ hist.ticks < MaxTicks
  /\ now' = now + d
  /\ hist' = [hist EXCEPT !.ticks = @ + 1]
  /\ UNCHANGED <<memory, file, runVars, ret, calls, appended>>

NextStuck ==
  \/ \E key \in DetectorKeys : DetectStuck(key)
  \/ \E d \in Delays : Tick(d)

SpecStuck == InitStuck /\ [][NextStuck]_vars

RECURSIVE RunLength(_, _)
\* The number of observations up to the i-th that follow one another in less
\* than a window.
RunLength(c, i) ==
  IF i = 1 THEN 1
  ELSE IF c[i].t - c[i - 1].t < 300 THEN RunLength(c, i - 1) + 1 ELSE 1

\* C1: on one key, starting without an entry, the first observation sets count
\* to 1, a later one sets it to the previous count + 1 when fewer than 300
\* seconds passed since the previous observation and to 1 otherwise, last_time
\* is the time of the latest observation, and an observation returns true
\* exactly when the resulting count is at least 3.
C1_StuckCounter ==
  \A key \in StuckKeys :
    LET c == calls[key]
    IN  IF c = <<>>
        THEN key \notin DOMAIN memory.stuck_detection
        ELSE /\ key \in DOMAIN memory.stuck_detection
             /\ memory.stuck_detection[key].count = RunLength(c, Len(c))
             /\ memory.stuck_detection[key].last_time = c[Len(c)].t
             /\ \A i \in 1..Len(c) : c[i].r = (RunLength(c, i) >= 3)

\* Three observations inside the window returned false, false, true and a
\* fourth, made after the window elapsed, returned false.
C1_Witness ==
  \E key \in StuckKeys :
    /\ Len(calls[key]) = 4
    /\ calls[key][3].t - calls[key][1].t < 300
    /\ ~calls[key][1].r /\ ~calls[key][2].r /\ calls[key][3].r
    /\ calls[key][4].t - calls[key][3].t >= 300
    /\ ~calls[key][4].r

----------------------------------------------------------------------------
(* Specification of the store alone: record_action and                      *)
(* get_last_successful_action on a store loaded with a history of any       *)
(* length around the cap.                                                    *)

RecordSignatures == {generate_page_signature(p) : p \in {"signin", "form"}}

PreLengths == {0, HISTORY_CAP - 1, HISTORY_CAP, HISTORY_CAP + 2}

\* The i-th record of a history of n records found in the file at start-up.
PreRecord(i, n, seed) ==
  LET p == IF seed = 2 \/ (i + seed) % 2 = 0 THEN "signin" ELSE "form"
  IN  ActionRecord(generate_page_signature(p), DecisionTree(analyze_page_enhanced(p)),
                   generate_action_code(DecisionTree(analyze_page_enhanced(p))),
                   (i + seed) % 3 = 0, None, i - n)

PreHistory(n, seed) == [i \in 1..n |-> PreRecord(i, n, seed)]

\* The action types that record_action appended to action_sequences[s] when it
\* was given the records of history.
PreSequence(history, s) ==
  LET OnPage(r) == r.page_signature = s
      records == SelectSeq(history, OnPage)
  IN  [i \in 1..Len(records) |-> records[i].action.action_type]

PreSequences(history) ==
  [s \in {history[i].page_signature : i \in DOMAIN history} |-> PreSequence(history, s)]

\* The store found at start-up: the records of n earlier attempts, made on two
\* pages in turn or (seed 2) all on the sign-in dialog.
InitRecord ==
  /\ \E n \in PreLengths, seed \in {0, 1, 2} :
       /\ memory = [EmptyMemory EXCEPT
                      !.action_history = PreHistory(n, seed),
                      !.action_sequences = PreSequences(PreHistory(n, seed))]
       /\ appended = PreHistory(n, seed)
  /\ file = Missing /\ now = 1
  /\ RunIdle
  /\ ret = NoReturn /\ calls = [k \in StuckKeys |-> <<>>]
  /\ hist = NoHist

\* record_action(memory, page_signature, action, code_snippet, success, error_msg)
RecordAction(page_signature, act, ok) ==
  LET err == IF ok THEN None ELSE "No state change"
      code == generate_action_code(act)
  IN  /\ hist.appends < MaxAppends
      /\ memory' = record_action(memory, page_signature, act, code, ok, err, now)
      /\ appended' = Append(appended, ActionRecord(page_signature, act, code, ok, err, now))
      /\ now' = now + 1
      /\ hist' = [hist EXCEPT !.appends = @ + 1]
      /\ ret' = [op |-> "record_action"]
      /\ UNCHANGED <<file, runVars, calls>>

\* get_last_successful_action(memory, page_signature)
LastSuccess(page_signature) ==
  /\ ret' = [op |-> "get_last_successful_action", page_signature |-> page_signature,
             value |-> get_last_successful_action(memory, page_signature),
             before |-> memory]
  /\ UNCHANGED <<memory, file, now, runVars, calls, appended, hist>>

NextRecord ==
  \/ \E p \in {"signin", "form"}, ok \in BOOLEAN :
       RecordAction(generate_page_signature(p), DecisionTree(analyze_page_enhanced(p)), ok)
  \/ \E s \in RecordSignatures : LastSuccess(s)

SpecRecord == InitRecord /\ [][NextRecord]_vars

\* C7: after every call of record_action, whatever the length of the history
\* before it, the history holds at most 100 records and is exactly the most
\* recent min(n, 100) of the records appended, in the order they were appended.
C7_HistoryCap ==
  hist.appends > 0 =>
    /\ Len(memory.action_history) <= 100
    /\ Len(memory.action_history) = Min(Len(appended), 100)
    /\ \A i \in 1..Len(memory.action_history) :
         memory.action_history[i] =
           appended[Len(appended) - Len(memory.action_history) + i]

\* A call on a full history evicted the oldest record and kept the new one last.
C7_Witness ==
  /\ hist.appends >= 2
  /\ Len(appended) > 100
  /\ Len(memory.action_history) = 100
  /\ memory.action_history[100] = appended[Len(appended)]
  /\ memory.action_history[1] # appended[1]

\* The indices of the records held for signature s whose success is true.
Successes(h, s) == {i \in 1..Len(h) : h[i].page_signature = s /\ h[i].success}

Largest(S) == CHOOSE i \in S : \A j \in S : j <= i

\* C8: after any sequence of record_action calls, get_last_successful_action
\* returns the most recently appended record still held whose page_signature
\* is s and whose success is true, returns None exactly when no such record is
\* held, and leaves the store unchanged.
C8_LastSuccess ==
  ret.op = "get_last_successful_action" =>
    LET h == memory.action_history
        M == Successes(h, ret.page_signature)
    IN  /\ (M = {}) <=> (ret.value = NoRecord)
        /\ M # {} => ret.value = h[Largest(M)]
        /\ ret.before = memory

\* A lookup made after some records were appended found the later of several
\* successes held for the signature.
C8_Witness ==
  /\ ret.op = "get_last_successful_action"
  /\ hist.appends >= 2
  /\ Cardinality(Successes(memory.action_history, ret.page_signature)) >= 2
  /\ ret.value = appended[Len(appended)]

----------------------------------------------------------------------------
(* Specification of a run of main (job_agent10): the memory is loaded and   *)
(* the browser started; the environment decides what every action does to   *)
(* the page, within its budgets, may kill the browser session and may        *)
(* interrupt the run.                                                        *)

StartPages == {"cookie", "signin"}

\* The pages an action can lead to: the flow of the site goes forward, from
\* the notice to the sign-in dialog, the filled dialog, the form, the form
\* with a field typed in and the confirmation.
Successors(p) ==
  CASE p = "cookie" -> {"signin", "form"}
    [] p = "signin" -> {"filled", "form"}
    [] p = "filled" -> {"form"}
    [] p = "form"   -> {"typed", "done"}
    [] p = "typed"  -> {"done"}
    [] OTHER        -> {}

\* The file as save_agent_memory leaves it when it completes.
Saved(mem) == [kind |-> "complete", data |-> mem]

Init ==
  /\ memory = EmptyMemory /\ file = Missing /\ now = 0
  /\ page = "cookie" /\ dead = FALSE /\ pc = "open_job"
  /\ step_num = 0 /\ attempt = 0
  /\ initial_state = NoRecord /\ page_info = NoRecord /\ last_error = None
  /\ success = FALSE /\ action = NoRecord /\ verdict = NoRecord /\ outcome = None
  /\ env = [raises |-> 0] /\ agent = NoAgent
  /\ ret = NoReturn /\ calls = [k \in StuckKeys |-> <<>>] /\ appended = <<>>
  /\ hist = NoHist

\* Where the run is when an interrupt or the loss of the session hits it: in an
\* attempt, between two steps.
InterruptPcs == {"exec"}
CrashPcs == {"open_job", "step", "check"}

\* main, lines 797-806: the loop is left (break, exhaustion or an exception
\* handled at 797-801) and the finally block runs: driver.quit(), then
\* save_agent_memory(memory).  On an unusable session driver.quit() may raise,
\* and the exception leaves main before the save.
Teardown(how) ==
  /\ outcome' = how
  /\ pc' = "done"
  /\ \E quit_raises \in (IF dead THEN BOOLEAN ELSE {FALSE}) :
       IF quit_raises
       THEN /\ file' = file
            /\ hist' = [hist EXCEPT !.quit_raised = TRUE]
       ELSE /\ file' = Saved(memory)
            /\ hist' = [hist EXCEPT !.final_saves = @ + 1]

\* main, lines 755-759: driver.get(job_url); time.sleep(3)
OpenJob ==
  /\ pc = "open_job"
  /\ IF dead
     THEN /\ Teardown("fatal")
          /\ UNCHANGED <<page, step_num, now>>
     ELSE /\ \E p \in StartPages : page' = p
          /\ now' = now + 3
          /\ step_num' = 1
          /\ pc' = "step"
          /\ UNCHANGED <<outcome, file, hist>>
  /\ UNCHANGED <<agent, memory, dead, attempt, initial_state, page_info, last_error,
                 success, action, verdict, env, ret, calls, appended>>

\* execute_step, lines 645-667: capture the initial state, analyse the page.
BeginStep ==
  /\ pc = "step"
  /\ IF dead
     THEN /\ Teardown("fatal")
          /\ UNCHANGED <<initial_state, page_info, last_error, success, attempt, verdict>>
     ELSE /\ initial_state' = capture_page_state(page)
          /\ page_info' = analyze_page_enhanced(page)
          /\ last_error' = None
          /\ success' = FALSE
          /\ attempt' = 0
          /\ verdict' = NoRecord
          /\ pc' = "decide"
          /\ UNCHANGED <<outcome, file, hist>>
  /\ UNCHANGED <<agent, memory, now, page, dead, step_num, action, env, ret, calls,
                 appended>>

\* The observations of the detector, with one more on key when asked.
Observed(c, asked, key, t, r) ==
  IF asked THEN [c EXCEPT ![key] = Append(@, [t |-> t, r |-> r])] ELSE c

\* execute_step, lines 669-678: generate_smart_action and generate_action_code.
Decide ==
  /\ pc = "decide"
  /\ LET d == generate_smart_action(page_info, memory, last_error, now)
         key == StuckKey(page_info.page_signature, "fill_form")
     IN  /\ action' = d.action
         /\ memory' = [memory EXCEPT !.stuck_detection = d.stuck_detection]
         /\ ret' = [op |-> "generate_smart_action", asked |-> d.asked, stuck |-> d.stuck,
                    last_success |-> get_last_successful_action(memory, page_info.page_signature),
                    last_error |-> last_error]
         /\ calls' = Observed(calls, d.asked, key, now, d.stuck)
  /\ pc' = "exec"
  /\ UNCHANGED <<agent, file, now, page, dead, step_num, attempt, initial_state, page_info,
                 last_error, success, verdict, outcome, env, appended, hist>>

Raised == [changed |-> FALSE, result |-> "exception", reason |-> "exception"]

\* An attempt that is recorded as successful whenever its code did not raise.
OutcomeTrusting(threw, v) ==
  [ok |-> ~threw,
   error |-> IF threw THEN "error" ELSE None]

\* execute_step, lines 699-719: what an attempt is recorded as.
Outcome(threw, v) ==
  [ok |-> ~threw /\ v.changed,
   error |-> IF threw THEN "error" ELSE IF v.changed THEN None ELSE "No state change"]

\* A successful fill_sign_in_form after which the detector is consulted and its
\* entry left as the detector wrote it.
AfterFillKeep(sd, key, t) == StuckAfter(sd, key, t)

\* execute_step, lines 704-708: after a successful fill_sign_in_form the
\* detector is consulted and, unless stuck, the entry is overwritten.
AfterFill(sd, key, t) ==
  IF StuckReturn(sd, key, t)
  THEN StuckAfter(sd, key, t)
  ELSE [k \in (DOMAIN sd) \cup {key} |->
          IF k = key THEN [count |-> ESCALATED_COUNT, last_time |-> t]
                     ELSE sd[k]]

\* An attempt whose exception is printed and not recorded.
AfterAttemptUnlessRaised(mem, page_signature, act, threw, v, t) ==
  IF threw THEN mem
  ELSE record_action(mem, page_signature, act, generate_action_code(act),
                     v.changed, IF v.changed THEN None ELSE "No state change", t)

\* execute_step, lines 680-719: the store after one attempt.
AfterAttempt(mem, page_signature, act, threw, v, t) ==
  LET o  == Outcome(threw, v)
      m1 == record_action(mem, page_signature, act, generate_action_code(act),
                          o.ok, o.error, t)
  IN  IF o.ok /\ act.action_type = "fill_sign_in_form"
      THEN [m1 EXCEPT !.stuck_detection =
                        AfterFill(@, StuckKey(page_signature, "fill_form"), t)]
      ELSE m1

\* A retry loop without the break after a success.
NeverBreaks(ok) == FALSE

\* execute_step, line 710: the break after an attempt recorded as a success.
Breaks(ok) == ok

\* A retry loop that makes one attempt more than MAX_RETRIES.
RetriesExhaustedLate(n) == n >= MAX_RETRIES + 1

\* execute_step, line 669: for attempt in range(MAX_RETRIES) is over after n
\* attempts.
RetriesExhausted(n) == n >= MAX_RETRIES

\* execute_step, lines 680-719: exec(code), time.sleep(2), the second capture,
\* the verdict and the record of the attempt.
Exec ==
  /\ pc = "exec"
  /\ \E p2 \in {page} \cup (IF dead THEN {} ELSE Successors(page)),
        raises \in BOOLEAN :
       /\ raises => env.raises < MaxRaises
       /\ LET t     == now + SETTLE
              threw == raises \/ dead
              new   == capture_page_state(p2)
              v     == IF threw THEN Raised ELSE states_are_different(initial_state, new)
              o     == Outcome(threw, v)
              sig   == page_info.page_signature
              key   == StuckKey(sig, "fill_form")
              fill  == o.ok /\ action.action_type = "fill_sign_in_form"
          IN  /\ page' = p2
              /\ now' = t
              /\ env' = [raises |-> env.raises + (IF raises THEN 1 ELSE 0)]
              /\ verdict' = [changed |-> v.changed, result |-> v.result,
                             reason |-> v.reason, new_state |-> new]
              /\ memory' = AfterAttempt(memory, sig, action, threw, v, t)
              /\ appended' = Append(appended,
                                ActionRecord(sig, action, generate_action_code(action),
                                             o.ok, o.error, t))
              /\ calls' = Observed(calls, fill, key, t,
                                   StuckReturn(memory.stuck_detection, key, t))
              /\ last_error' = IF o.ok THEN last_error ELSE o.error
              /\ success' = o.ok
              /\ attempt' = attempt + 1
              /\ hist' = [hist EXCEPT
                            !.attempts = @ + 1,
                            !.confirmed =
                               IF /\ @ < 0 /\ ~threw
                                  /\ UrlHasSuccess(new.url)
                                  /\ ~UrlHasSuccess(PageDef(page).url)
                               THEN hist.attempts + 1 ELSE @]
              /\ pc' = IF Breaks(o.ok) \/ RetriesExhausted(attempt + 1)
                       THEN "step_save" ELSE "decide"
  /\ UNCHANGED <<agent, file, dead, step_num, initial_state, page_info, action, outcome, ret>>

\* save_agent_memory, line 93: open(MEMORY_FILE, 'w') empties the file.
SaveOpen ==
  /\ pc = "step_save"
  /\ file' = Truncated
  /\ pc' = "step_write"
  /\ UNCHANGED <<agent, memory, now, page, dead, step_num, attempt, initial_state, page_info,
                 last_error, success, action, verdict, outcome, env, ret, calls,
                 appended, hist>>

\* save_agent_memory, line 94: json.dump writes the store; execute_step returns.
SaveWrite ==
  /\ pc = "step_write"
  /\ file' = Saved(memory)
  /\ pc' = "check"
  /\ UNCHANGED <<agent, memory, now, page, dead, step_num, attempt, initial_state, page_info,
                 last_error, success, action, verdict, outcome, env, ret, calls,
                 appended, hist>>

\* A completion test that looks at the title alone.
CompletedByTitle(p) == TitleHasThank(PageDef(p).title)

\* main, line 767: the application is complete.
Completed(p) == UrlHasSuccess(PageDef(p).url) \/ TitleHasThank(PageDef(p).title)

\* main, lines 772-777: the last 5 records carry one signature.
SamePageForRecent(mem) ==
  LET recent == LastN(mem.action_history, RECENT)
  IN  /\ Len(recent) = RECENT
      /\ \A i \in 1..Len(recent) : recent[i].page_signature = recent[1].page_signature

\* main, lines 766-769 and 797-801: after execute_step returned, the page is a
\* confirmation page (break), or reading it raises.
Finish ==
  /\ pc = "check"
  /\ dead \/ Completed(page)
  /\ Teardown(IF dead THEN "fatal" ELSE "success")
  /\ UNCHANGED <<agent, memory, now, page, dead, step_num, attempt, initial_state,
                 page_info, last_error, success, action, verdict, env, ret, calls,
                 appended>>

\* main, lines 771-795: the recovery click when stuck, then the next iteration
\* of the loop or its end.
Continue ==
  /\ pc = "check"
  /\ ~dead /\ ~Completed(page)
  /\ IF step_num > RecoverAfter /\ SamePageForRecent(memory)
     THEN \E p2 \in {page} \cup Successors(page) :
            /\ page' = p2
            /\ UNCHANGED env
            /\ now' = now + 2
            /\ ret' = [op |-> "recovery"]
     ELSE UNCHANGED <<page, env, now, ret>>
  /\ IF step_num < max_steps
     THEN step_num' = step_num + 1 /\ pc' = "step" /\ UNCHANGED <<outcome, file, hist>>
     ELSE UNCHANGED step_num /\ Teardown("budget")
  /\ UNCHANGED <<agent, memory, dead, attempt, initial_state, page_info, last_error,
                 success, action, verdict, calls, appended>>

\* The user presses Ctrl-C: KeyboardInterrupt passes every "except Exception"
\* and reaches main's handler (line 797).
Interrupt ==
  /\ pc \in InterruptPcs
  /\ Teardown("interrupted")
  /\ UNCHANGED <<agent, memory, now, page, dead, step_num, attempt, initial_state,
                 page_info, last_error, success, action, verdict, env, ret, calls,
                 appended>>

\* The process is killed while save_agent_memory writes: nothing runs after it.
Kill ==
  /\ pc = "step_write"
  /\ pc' = "done"
  /\ outcome' = "killed"
  /\ UNCHANGED <<agent, memory, file, now, page, dead, step_num, attempt, initial_state,
                 page_info, last_error, success, action, verdict, env, ret, calls,
                 appended, hist>>

\* The browser session becomes unusable: every later driver call raises.
Crash ==
  /\ pc \in CrashPcs
  /\ ~dead
  /\ dead' = TRUE
  /\ UNCHANGED <<agent, memory, file, now, page, pc, step_num, attempt, initial_state,
                 page_info, last_error, success, action, verdict, outcome, env, ret,
                 calls, appended, hist>>

Next ==
  \/ OpenJob
  \/ BeginStep
  \/ Decide
  \/ Exec
  \/ SaveOpen
  \/ SaveWrite
  \/ Finish
  \/ Continue
  \/ Interrupt
  \/ Kill
  \/ Crash

Spec == Init /\ [][Next]_vars

----------------------------------------------------------------------------
(* The memory files across runs of the three programs that keep one *)

Loaders == {"job_agent10", "job_agent_clean", "job_application_agent"}

\* MEMORY_FILE of each program: two of them keep their store under one name.
MemoryPath(l) ==
  IF l = "job_agent10" THEN "agent_memory_final.json" ELSE "agent_memory.json"

Paths == {MemoryPath(l) : l \in Loaders}

\* The store of a program, by the keys it holds and the number of its entries.
Store(shape, n) == [shape |-> shape, entries |-> n]

\* DEFAULT_MEMORY and the literal defaults of the two classes.
DefaultStore(l) == Store(l, 0)

\* Parseable JSON that is not a store: not an object, or an object whose
\* fields hold values of another type (action_history: null).
Damages == {"not_dict", "wrong_types"}

Returned(value) == [raised |-> FALSE, value |-> value]

\* load_agent_memory(), MemoryManager._load(), LearningMemory._load_memory()
\* on the file f: whether the call raised and the store returned. Only the
\* first tests the file's existence under try and touches the parsed value;
\* the second has a bare except around open and json.load; the third has no
\* handler at all.
Load(l, f) ==
  CASE f.kind = "missing" -> Returned(DefaultStore(l))
    [] f.kind = "partial" ->
         IF l = "job_application_agent"
         THEN [raised |-> TRUE, value |-> Store("none", 0)]
         ELSE Returned(DefaultStore(l))
    [] f.kind = "not_dict" ->
         IF l = "job_agent10" THEN Returned(DefaultStore(l))
         ELSE Returned(Store("not_dict", 0))
    [] f.kind = "wrong_types" -> Returned(Store("wrong_types", 0))
    [] OTHER -> Returned(f.data)

\* main, line 741 of job_agent10: len(memory.get('action_history', [])) runs
\* before the browser starts and raises on a value that has no length.
StartupRaises(l, r) ==
  r.raised \/ (l = "job_agent10" /\ r.value.shape = "wrong_types")

loadIdle == <<now, page, dead, step_num, attempt, initial_state, page_info,
              last_error, success, action, verdict, outcome, env, agent, calls, appended>>

InitLoad ==
  /\ memory = Store("none", 0)
  /\ file = [p \in Paths |-> Missing]
  /\ now = 0 /\ page = "cookie" /\ dead = FALSE /\ pc = "start"
  /\ step_num = 0 /\ attempt = 0
  /\ initial_state = NoRecord /\ page_info = NoRecord /\ last_error = None
  /\ success = FALSE /\ action = NoRecord /\ verdict = NoRecord /\ outcome = None
  /\ env = [raises |-> 0] /\ agent = NoAgent
  /\ ret = NoReturn /\ calls = [k \in StuckKeys |-> <<>>] /\ appended = <<>>
  /\ hist = NoHist

\* A program starts and loads its store.
Startup(l) ==
  /\ pc = "start"
  /\ hist.calls < MaxCalls
  /\ LET f == file[MemoryPath(l)]
         r == Load(l, f)
     IN  /\ ret' = [op |-> "load", loader |-> l, file_kind |-> f.kind,
                    own |-> (f.kind = "complete" => f.data.shape = l),
                    raised |-> r.raised, value |-> r.value,
                    aborted |-> StartupRaises(l, r)]
         /\ memory' = r.value
         /\ pc' = IF StartupRaises(l, r) THEN "aborted" ELSE "running"
  /\ hist' = [hist EXCEPT !.calls = @ + 1]
  /\ UNCHANGED <<file, loadIdle>>

\* The running program adds an entry to the store it holds.
Learn ==
  /\ pc = "running"
  /\ memory.shape = ret.loader
  /\ memory.entries < MaxAppends
  /\ memory' = [memory EXCEPT !.entries = @ + 1]
  /\ UNCHANGED <<file, pc, ret, hist, loadIdle>>

\* open(path, 'w') of the three save functions.
StoreOpen ==
  /\ pc = "running"
  /\ memory.shape = ret.loader
  /\ file' = [file EXCEPT ![MemoryPath(ret.loader)] = Truncated]
  /\ pc' = "saving"
  /\ UNCHANGED <<memory, ret, hist, loadIdle>>

\* json.dump of the three save functions runs to its end.
StoreWrite ==
  /\ pc = "saving"
  /\ file' = [file EXCEPT ![MemoryPath(ret.loader)] = Saved(memory)]
  /\ pc' = "running"
  /\ UNCHANGED <<memory, ret, hist, loadIdle>>

\* The process ends, at any point: by its own exit, by the abort of its
\* startup or by a kill.
Exit ==
  /\ pc \in {"running", "saving", "aborted"}
  /\ pc' = "start"
  /\ UNCHANGED <<memory, file, ret, hist, loadIdle>>

\* Between two runs a file is replaced from outside by parseable JSON that is
\* not a store.
Damage(path, d) ==
  /\ pc = "start"
  /\ file[path].kind = "complete"
  /\ file' = [file EXCEPT ![path] = [kind |-> d]]
  /\ UNCHANGED <<memory, pc, ret, hist, loadIdle>>

NextLoad ==
  \/ \E l \in Loaders : Startup(l)
  \/ Learn
  \/ StoreOpen
  \/ StoreWrite
  \/ Exit
  \/ \E path \in Paths, d \in Damages : Damage(path, d)

SpecLoad == InitLoad /\ [][NextLoad]_vars

\* C10 as claimed: every loader, on a file that is missing, unparseable or not
\* of the expected shape, returns the default empty store without raising, and
\* the startup is not aborted.
C10_LoadFailsSoft ==
  (ret.op = "load" /\ (ret.file_kind # "complete" \/ ~ret.own)) =>
    /\ ~ret.raised
    /\ ret.value = DefaultStore(ret.loader)
    /\ ~ret.aborted

----------------------------------------------------------------------------
(* Claims about a run of main *)

FillKey == StuckKey(page_info.page_signature, "fill_form")

\* The detector reported stuck to the decision just made: the page shows the
\* sign-in elements with the form filled and the count it left is at least 3.
EscalationApplies ==
  /\ page_info.sign_in_detected /\ page_info.form_filled
  /\ FillKey \in DOMAIN memory.stuck_detection
  /\ memory.stuck_detection[FillKey].count >= 3

\* C2: when the page shows sign-in elements with the form filled and the stuck
\* detector reports stuck for (signature, fill_form), generate_smart_action
\* returns click_sign_in_button, whatever the history and last_error hold.
C2_EscalationFirst ==
  (pc = "exec" /\ EscalationApplies) => action.action_type = "click_sign_in_button"

\* The escalation overrode a replay: the last success held for the signature
\* is a fill_sign_in_form and no error is pending.
C2_Witness ==
  /\ pc = "exec" /\ EscalationApplies
  /\ ret.last_success # NoRecord
  /\ ret.last_success.action.action_type = "fill_sign_in_form"
  /\ last_error = None
  /\ action.action_type = "click_sign_in_button"

\* C3 as claimed: whenever a last success is held for the signature and
\* last_error is None, the action returned has its action_type and target.
C3_ReplayAlways ==
  (pc = "exec" /\ ret.last_success # NoRecord /\ last_error = None) =>
    /\ action.action_type = ret.last_success.action.action_type
    /\ action.target = ret.last_success.action.target

\* C3 as amended: whenever a last success is held for the signature, last_error
\* is None and the detector did not report stuck on a filled sign-in form, the
\* action returned has the action_type and the target of that record.
C3_ReplayUnlessStuck ==
  (pc = "exec" /\ ret.last_success # NoRecord /\ last_error = None
     /\ ~EscalationApplies) =>
    /\ action.action_type = ret.last_success.action.action_type
    /\ action.target = ret.last_success.action.target

\* A success recorded in an earlier step is replayed on a page that the
\* decision tree alone would have handled the same way or not.
C3_Witness ==
  /\ pc = "exec" /\ ret.last_success # NoRecord /\ last_error = None
  /\ ~EscalationApplies
  /\ action.using_memory
  /\ action.action_type = ret.last_success.action.action_type

LastRecord == memory.action_history[Len(memory.action_history)]

\* C4: an attempt whose code ran without raising and whose verdict is
\* no_change is recorded with success False and error 'No state change', and
\* while fewer than MAX_RETRIES attempts were made the step goes on to another
\* attempt.
C4_NoChangeIsFailure ==
  (verdict # NoRecord /\ verdict.result = "no_change") =>
    /\ memory.action_history # <<>>
    /\ LastRecord.success = FALSE
    /\ LastRecord.error = "No state change"
    /\ pc \in {"decide", "step_save", "step_write", "check"} => LastRecord.action = action
    /\ (attempt < MAX_RETRIES /\ outcome = None) => pc \in {"decide", "exec"}
    /\ ~success

\* After an attempt with verdict no_change the next attempt of the step has
\* been decided.
C4_Witness ==
  /\ verdict # NoRecord /\ verdict.result = "no_change"
  /\ pc = "exec" /\ attempt >= 1 /\ attempt < MAX_RETRIES
  /\ LastRecord.success = FALSE

\* C5: once the URL after an action holds the confirmation marker that the URL
\* at the start of the step did not hold, the verdict is success, no other
\* attempt or step is made, and the run that ends without interrupt, kill or
\* loss of the session ends in success.
C5_ConfirmationEndsRun ==
  hist.confirmed >= 0 =>
    /\ verdict.changed /\ verdict.result = "success"
    /\ hist.attempts = hist.confirmed
    /\ pc \in {"step_save", "step_write", "check", "done"}
    /\ (pc = "done" /\ ~dead /\ outcome \notin {"interrupted", "killed"})
         => outcome = "success"

\* The run ended in success after the confirmation URL was reached.
C5_Witness ==
  /\ hist.confirmed >= 0 /\ pc = "done" /\ outcome = "success"
  /\ UrlHasSuccess(verdict.new_state.url) /\ ~UrlHasSuccess(initial_state.url)

\* C6 as claimed: every run that ends (confirmation, budget exhausted, user
\* interrupt, fatal driver error) has called save_agent_memory after its last
\* step.
C6_SaveOnEveryExit ==
  (pc = "done" /\ outcome # "killed") => hist.final_saves >= 1

\* C9 as claimed: whenever no save is in progress the file is absent or holds
\* a complete store.
C9_AtomicSave ==
  pc # "step_write" => file.kind \in {"missing", "complete"}

\* C11 as claimed: deciding an action, which queries the stuck signal and looks
\* up the last success, leaves every field of memory unchanged.
C11_DecidingReadsOnly ==
  [][pc = "decide" => memory' = memory]_vars

StillOnFilledForm ==
  /\ page_info.sign_in_detected /\ page_info.form_filled
  /\ page_info.page_signature = LastRecord.page_signature

C14_NeverRepeatsFailure ==
  pc = "exec" =>
    \A i \in 1..Len(memory.action_history) :
      LET r == memory.action_history[i]
      IN  ~ /\ ~r.success
            /\ r.page_signature = page_info.page_signature
            /\ r.action.action_type = action.action_type
            /\ r.code_snippet = generate_action_code(action)

----------------------------------------------------------------------------
(* Single calls of the functions that decide, sign, judge and execute *)

InitCalls ==
  /\ memory = EmptyMemory /\ file = Missing /\ now = 0
  /\ RunIdle
  /\ ret = NoReturn /\ calls = [k \in StuckKeys |-> <<>>] /\ appended = <<>>
  /\ hist = NoHist

callIdle == <<memory, file, now, runVars, calls, appended, hist>>

\* A store that holds one success of action act on the signature of page p.
Remembering(p, act) ==
  record_action(EmptyMemory, generate_page_signature(p), act,
                generate_action_code(act), TRUE, None, 0)

\* The stores a decision is made on: the empty one, and one per kind of action
\* that succeeded before on the page's signature.
StoresFor(p) ==
  {EmptyMemory} \cup {Remembering(p, DecisionTree(analyze_page_enhanced(q))) : q \in PageNames}

\* analyze_page_enhanced followed by generate_smart_action on snapshot p.
SmartActionOn(p, mem, err) ==
  /\ ret = NoReturn
  /\ ret' = [op |-> "smart_action", page |-> p, memory |-> mem, last_error |-> err,
             value |-> generate_smart_action(analyze_page_enhanced(p), mem, err, now).action]
  /\ UNCHANGED callIdle

\* Two captures have the same URL path, element counts and modal count.
SameLogicalPage(p, q) ==
  /\ PageDef(p).path = PageDef(q).path
  /\ PageDef(p).n_inputs = PageDef(q).n_inputs
  /\ PageDef(p).n_buttons = PageDef(q).n_buttons
  /\ PageDef(p).n_modals = PageDef(q).n_modals

\* generate_page_signature on two captures.
PageSignatures(p, q) ==
  /\ ret = NoReturn
  /\ ret' = [op |-> "generate_page_signature", first |-> p, second |-> q,
             value |-> <<generate_page_signature(p), generate_page_signature(q)>>]
  /\ UNCHANGED callIdle

(* job_agent9improved: the signature of a page_info *)

\* A button text is held as <<its first 20 characters, the rest>>; 0 stands for
\* no characters.
EmptyText == <<0, 0>>

\* text[:20]
Head20(text) == text[1]

\* The button texts of a page_info with n buttons: all different, or every
\* other one empty.
ButtonTexts(n, distinct) ==
  [i \in 1..n |-> IF distinct THEN <<i, 0>>
                  ELSE IF i % 2 = 0 THEN EmptyText ELSE <<1, i>>]

\* A page_info of n buttons, with as many inputs and one select.
PageInfo9(n, distinct) ==
  [url |-> [base |-> "/apply", query |-> "source=LinkedIn"],
   inputs |-> [i \in 1..n |-> i], buttons |-> ButtonTexts(n, distinct),
   selects |-> <<1>>, file_inputs |-> <<>>]

\* The permutation of 1..n that exchanges a and b.
Exchange(n, a, b) == [i \in 1..n |-> IF i = a THEN b ELSE IF i = b THEN a ELSE i]

\* The same elements in the order given by the permutation f.
Reordered(seq, f) == [i \in 1..Len(seq) |-> seq[f[i]]]

Reverse(seq) == [i \in 1..Len(seq) |-> seq[Len(seq) + 1 - i]]

\* create_page_signature, lines 67-74: the texts, cut to 20 characters, of
\* those of the first five buttons that have a text.
RECURSIVE FirstButtonTexts(_, _)
FirstButtonTexts(buttons, i) ==
  IF i > Len(buttons) \/ i > BUTTON_CUT THEN <<>>
  ELSE (IF buttons[i] # EmptyText THEN <<Head20(buttons[i])>> ELSE <<>>)
         \o FirstButtonTexts(buttons, i + 1)

\* create_page_signature(page_info): the digest of the JSON text of the
\* elements, taken to be injective on them.
create_page_signature(info) ==
  <<info.url.base, Len(info.inputs), Len(info.buttons), Len(info.selects),
    Len(info.file_inputs),
    SortSeq(FirstButtonTexts(info.buttons, 1), LAMBDA a, b : a < b)>>

\* create_page_signature on a page_info and on a reordering of its lists.
CreatePageSignatures(n, distinct, f) ==
  LET info  == PageInfo9(n, distinct)
      other == [info EXCEPT !.buttons = Reordered(@, f), !.inputs = Reverse(@)]
  IN  /\ ret = NoReturn
      /\ ret' = [op |-> "create_page_signature", first |-> info, second |-> other,
                 value |-> <<create_page_signature(info), create_page_signature(other)>>]
      /\ UNCHANGED callIdle

(* job_agent9improved: the verdict on two captured states *)

\* The captured states the verdict is asked on. form_values holds the values of
\* the fields in the order of their ids.
FormValues == {<<>>, <<"">>, <<"x">>, <<"x", "">>, <<"x", "y">>}

StatesBefore ==
  [url : {"/apply"}, visible_modals : {0, 1, 2}, error_messages : SUBSET {"Invalid"},
   body_text_hash : {"h1"}, form_values : FormValues]

StatesAfter ==
  [url : {"/apply", "/apply/form"}, visible_modals : {0, 1, 2},
   error_messages : SUBSET {"Invalid"}, body_text_hash : {"h1", "h2"},
   form_values : {<<>>, <<"x">>, <<"", "">>}]

ActionTypes9 == {"click_button", "fill_form", "click_sign_in"}

\* "sign" in str(action_type).lower()
HasSign(action_type) == action_type \in {"click_sign_in"}

\* state2.get("form_values", {}).get(field_id, "")
ValueOf(values, i) == IF i \in DOMAIN values THEN values[i] ELSE ""

\* states_are_different, lines 919-927: at least half of the fields that state1
\* holds had a value and have none in state2.
FormCleared(state1, state2) ==
  /\ state1.form_values # <<>>
  /\ Cardinality({i \in DOMAIN state1.form_values :
                    state1.form_values[i] # "" /\ ValueOf(state2.form_values, i) = ""})
       >= Len(state1.form_values) \div 2

\* job_agent9improved.states_are_different(state1, state2, action_type)
states_are_different9(state1, state2, action_type) ==
  IF state1.url # state2.url
  THEN [changed |-> TRUE, result |-> "success", reason |-> "URL changed"]
  ELSE IF /\ action_type = "click_button" /\ HasSign(action_type)
          /\ state1.visible_modals > state2.visible_modals
  THEN [changed |-> TRUE, result |-> "success", reason |-> "Modal closed - likely signed in"]
  ELSE IF state2.error_messages \ state1.error_messages # {}
  THEN [changed |-> TRUE, result |-> "failure", reason |-> "Error appeared"]
  ELSE IF state1.body_text_hash # state2.body_text_hash
  THEN IF FormCleared(state1, state2)
       THEN [changed |-> TRUE, result |-> "likely_success", reason |-> "Form cleared"]
       ELSE [changed |-> TRUE, result |-> "partial_success", reason |-> "Page content changed"]
  ELSE IF state1.visible_modals # state2.visible_modals
  THEN IF state2.visible_modals > state1.visible_modals
       THEN [changed |-> TRUE, result |-> "partial", reason |-> "New modal appeared"]
       ELSE [changed |-> TRUE, result |-> "success", reason |-> "Modal closed"]
  ELSE [changed |-> FALSE, result |-> "no_change", reason |-> "No meaningful change detected"]

StatesAreDifferent9(state1, state2, action_type) ==
  /\ ret = NoReturn
  /\ ret' = [op |-> "states_are_different9", state1 |-> state1, state2 |-> state2,
             action_type |-> action_type,
             value |-> states_are_different9(state1, state2, action_type)]
  /\ UNCHANGED callIdle

(* The executors: strategies tried in order *)

\* What one strategy meets: it performs its operation, it finds nothing to
\* operate on, or a driver call in it raises.
Meets == {"done", "miss", "raise"}

\* The first index from i on at which flags holds, or 0.
RECURSIVE FirstFrom(_, _)
FirstFrom(flags, i) ==
  IF i > Len(flags) THEN 0
  ELSE IF flags[i] THEN i
  ELSE FirstFrom(flags, i + 1)

\* ActionExecutor.click_next: _click_button per group, then _click_any_button;
\* each returns False on a miss and, through its bare except, on a raise.
click_next(outcomes) ==
  LET by == FirstFrom([i \in DOMAIN outcomes |-> outcomes[i] = "done"], 1)
  IN  [performed_by |-> by, tried |-> IF by = 0 THEN Len(outcomes) ELSE by,
       raised |-> FALSE, reported |-> IF by = 0 THEN "failed" ELSE "performed"]

\* The code generated for click_sign_in_button, run by exec: every strategy is
\* under a bare except and sets clicked; the last one sets clicked whenever its
\* script did not raise, whether or not it found a form. The code ends with a
\* print in both cases and exec returns nothing.
click_sign_in_code(outcomes) ==
  LET by == FirstFrom([i \in DOMAIN outcomes |->
                         \/ outcomes[i] = "done"
                         \/ (i = SIGN_IN_STRATEGIES /\ outcomes[i] = "miss")], 1)
  IN  [performed_by |-> by, tried |-> IF by = 0 THEN Len(outcomes) ELSE by,
       raised |-> FALSE, reported |-> "nothing"]

Execute(executor, outcomes) ==
  /\ ret = NoReturn
  /\ ret' = [op |-> "execute", executor |-> executor, outcomes |-> outcomes,
             value |-> IF executor = "click_next" THEN click_next(outcomes)
                       ELSE click_sign_in_code(outcomes)]
  /\ UNCHANGED callIdle

(* job_agent9improved: the action asked from the generation service *)

\* What the request to the service ends in.
ServiceOutcomes == {"connection_error", "timeout", "http_error", "responds"}

\* The texts the service responds with: nothing, text that is not JSON, JSON
\* that is not an object, an action object; bare or inside a ```json fence.
ResponseBodies == {"empty", "garbage", "list", "action"}

DecidedTypes == {"fill_form", "click_button", "upload_file", "needs_user_input", "done"}

Responses == [fenced : BOOLEAN, body : ResponseBodies, action_type : DecidedTypes]

NoResponse == [fenced |-> FALSE, body |-> "empty", action_type |-> "done"]

\* call_ollama(prompt): the response text, or "" when the request raised.
call_ollama(service, response) ==
  IF service = "responds" THEN response ELSE NoResponse

\* decide_action, lines 673-679: a leading ```json or ``` and a trailing ``` are
\* cut off.
StripFence(text) == [text EXCEPT !.fenced = FALSE]

\* decide_action, lines 689-697: the action returned when the text is not parsed.
DefaultAction == [action_type |-> "fill_form", using_memory |-> FALSE]

\* decide_action, lines 671-697, on the text call_ollama returned: the fence is
\* cut off, the body is parsed, and using_memory is set on the parsed value
\* when the memory held something for the page; any exception gives the
\* default action.
decide_action(service, response, has_memory) ==
  LET text == StripFence(call_ollama(service, response))
  IN  IF text.fenced \/ text.body \in {"empty", "garbage"} THEN DefaultAction
      ELSE IF text.body = "list"
      THEN IF has_memory THEN DefaultAction
           ELSE [action_type |-> None, using_memory |-> FALSE]
      ELSE [action_type |-> text.action_type, using_memory |-> has_memory]

DecideAction(service, response, has_memory) ==
  /\ ret = NoReturn
  /\ ret' = [op |-> "decide_action", service |-> service,
             text |-> call_ollama(service, response), has_memory |-> has_memory,
             raised |-> FALSE,
             value |-> decide_action(service, response, has_memory)]
  /\ UNCHANGED callIdle

\* The captures states_are_different is asked on: what capture_page_state
\* returns as the URL, the body text with its length, the number of visible
\* dialogs and the values of the filled fields vary.
BodySamples ==
  {[text |-> "Sign In", len |-> 7], [text |-> "Sign in", len |-> 7],
   [text |-> "Sign In Invalid password", len |-> 24]}

Captures ==
  {[url |-> u, title |-> "Careers", body_text_sample |-> b.text, body_len |-> b.len,
    visible_modals |-> m, input_values |-> v] :
     u \in {"/apply", "/apply/form"}, b \in BodySamples, m \in {0, 1},
     v \in {<<>>, <<"a">>, <<"b">>, <<"a", "b">>}}

\* states_are_different(state1, state2) on two captures.
StatesAreDifferent(state1, state2) ==
  /\ ret = NoReturn
  /\ ret' = [op |-> "states_are_different", state1 |-> state1, state2 |-> state2,
             value |-> states_are_different(state1, state2)]
  /\ UNCHANGED callIdle

NextCalls ==
  \/ \E p \in Snapshots : \E mem \in StoresFor(p), err \in {None, "No state change"} :
       SmartActionOn(p, mem, err)
  \/ \E p, q \in Snapshots : PageSignatures(p, q)
  \/ \E state1, state2 \in Captures : StatesAreDifferent(state1, state2)
  \/ \E n \in 0..MaxButtons, distinct \in BOOLEAN :
       \E a, b \in 1..n : CreatePageSignatures(n, distinct, Exchange(n, a, b))
  \/ \E state1 \in StatesBefore, state2 \in StatesAfter, a \in ActionTypes9 :
       StatesAreDifferent9(state1, state2, a)
  \/ \E service \in ServiceOutcomes, response \in Responses, has_memory \in BOOLEAN :
       DecideAction(service, response, has_memory)
  \/ \E outcomes \in [1..NEXT_STRATEGIES -> Meets] : Execute("click_next", outcomes)
  \/ \E outcomes \in [1..SIGN_IN_STRATEGIES -> Meets] :
       Execute("click_sign_in_button", outcomes)

SpecCalls == InitCalls /\ [][NextCalls]_vars

\* C12 as claimed: on every snapshot that shows the sign-in elements with an
\* empty password field, generate_smart_action returns fill_sign_in_form.
C12_FillOnEmptyPassword ==
  (ret.op = "smart_action" /\ PageDef(ret.page).sign_in
     /\ ~PageDef(ret.page).password_filled) =>
    ret.value.action_type = "fill_sign_in_form"

\* C16 as claimed: two captures of one logical page that differ only in body
\* text, title or query string get the same signature.
C16_SignatureIgnoresTransient ==
  (ret.op = "generate_page_signature" /\ SameLogicalPage(ret.first, ret.second)) =>
    ret.value[1] = ret.value[2]

\* C15 as claimed: a page_info and a reordering of its element lists get the
\* same signature from create_page_signature.
C15_SignatureOrderInsensitive ==
  ret.op = "create_page_signature" => ret.value[1] = ret.value[2]

\* C17 as claimed: for every pair of states and every action_type a changed URL
\* gives success; otherwise a smaller visible modal count gives success;
\* otherwise error text present after and absent before gives failure.
C17_VerdictOrder ==
  ret.op = "states_are_different9" =>
    LET s1 == ret.state1
        s2 == ret.state2
        closed == s1.visible_modals > s2.visible_modals
    IN  /\ s1.url # s2.url => ret.value.result = "success"
        /\ (s1.url = s2.url /\ closed) => ret.value.result = "success"
        /\ (s1.url = s2.url /\ ~closed /\ s2.error_messages \ s1.error_messages # {})
             => ret.value.result = "failure"

\* C18 as claimed: the executor performs the first strategy, in the fixed
\* order, that can perform its operation and tries none after it; a strategy
\* that misses or raises falls through; and when no strategy performed, the
\* caller gets an error or a failure, not a completed action.
C18_StrategiesInOrder ==
  ret.op = "execute" =>
    LET o     == ret.outcomes
        first == FirstFrom([i \in DOMAIN o |-> o[i] = "done"], 1)
    IN  /\ first # 0 => (ret.value.performed_by = first /\ ret.value.tried = first)
        /\ first = 0 => (ret.value.raised \/ ret.value.reported = "failed")

\* C19 as claimed: when the request to the generation service fails or its
\* text is not a parseable action, decide_action does not raise and returns a
\* progression action (a click), not a fill action.
C19_FallbackIsProgression ==
  (ret.op = "decide_action" /\ (ret.service # "responds" \/ ret.text.body # "action")) =>
    /\ ~ret.raised
    /\ ret.value.action_type = "click_button"

----------------------------------------------------------------------------
(* job_agent9improved: the selectors remembered per page signature *)

EmptyMemory9 ==
  [action_history |-> <<>>, element_selectors |-> EmptyMap, failure_patterns |-> <<>>]

\* The codes recorded, by the CSS selectors written in them, in order: none,
\* one, two with one seen before, and more than record_action takes.
Codes9 == {<<>>, <<"a">>, <<"b", "a">>, <<"c", "d", "e", "f", "g", "h">>}

Signatures9 == {"s1", "s2"}

\* record_action, lines 240-242: each selector not yet in the list is appended.
RECURSIVE AppendNew(_, _)
AppendNew(known, selectors) ==
  IF selectors = <<>> THEN known
  ELSE AppendNew(IF \E i \in DOMAIN known : known[i] = Head(selectors)
                 THEN known ELSE Append(known, Head(selectors)),
                 Tail(selectors))

\* job_agent9improved.record_action(memory, page_signature, action, code,
\* success, error_msg) at time t, on a code that holds the given selectors.
record_action9(mem, page_signature, code, ok, t) ==
  LET record == [timestamp |-> t, page_signature |-> page_signature,
                 code_snippet |-> code, success |-> ok,
                 error |-> IF ok THEN None ELSE "error"]
      known  == IF page_signature \in DOMAIN mem.element_selectors
                THEN mem.element_selectors[page_signature] ELSE <<>>
      after  == AppendNew(known, FirstN(code, SELECTOR_CUT))
      failure == [page_signature |-> page_signature, error_keyword |-> "error"]
  IN  IF ok
      THEN [mem EXCEPT
              !.action_history = Append(@, record),
              !.element_selectors =
                 [k \in (DOMAIN @) \cup {page_signature} |->
                    IF k = page_signature THEN after ELSE @[k]]]
      ELSE [mem EXCEPT
              !.action_history = Append(@, record),
              !.failure_patterns =
                 IF \E i \in DOMAIN @ : @[i] = failure THEN @ ELSE Append(@, failure)]

\* get_known_selectors(memory, page_signature)
get_known_selectors(mem, page_signature) ==
  IF page_signature \in DOMAIN mem.element_selectors
  THEN mem.element_selectors[page_signature] ELSE <<>>

InitSelectors ==
  /\ memory = EmptyMemory9 /\ file = Missing /\ now = 1
  /\ RunIdle
  /\ ret = NoReturn /\ calls = [k \in StuckKeys |-> <<>>] /\ appended = <<>>
  /\ hist = NoHist

RecordAction9(page_signature, code, ok) ==
  /\ hist.appends < MaxAppends
  /\ memory' = record_action9(memory, page_signature, code, ok, now)
  /\ now' = now + 1
  /\ hist' = [hist EXCEPT !.appends = @ + 1]
  /\ ret' = [op |-> "record_action9"]
  /\ UNCHANGED <<file, runVars, calls, appended>>

GetKnownSelectors(page_signature) ==
  /\ ret' = [op |-> "get_known_selectors", page_signature |-> page_signature,
             value |-> get_known_selectors(memory, page_signature)]
  /\ UNCHANGED <<memory, file, now, runVars, calls, appended, hist>>

NextSelectors ==
  \/ \E s \in Signatures9, code \in Codes9, ok \in BOOLEAN : RecordAction9(s, code, ok)
  \/ \E s \in Signatures9 : GetKnownSelectors(s)

SpecSelectors == InitSelectors /\ [][NextSelectors]_vars

\* The index of the latest success recorded for signature s whose code holds
\* the selector, or 0.
LatestUse(s, selector) ==
  Largest({i \in DOMAIN memory.action_history :
             /\ memory.action_history[i].page_signature = s
             /\ memory.action_history[i].success
             /\ \E j \in DOMAIN memory.action_history[i].code_snippet :
                  memory.action_history[i].code_snippet[j] = selector} \cup {0})

\* C20 as claimed: what get_known_selectors returns for s holds only selectors
\* of codes recorded as successful for s, holds none twice, is ordered
\* most-recent-first and is no longer than the cap.
C20_KnownSelectors ==
  ret.op = "get_known_selectors" =>
    LET known == ret.value
        s     == ret.page_signature
    IN  /\ \A i \in DOMAIN known : LatestUse(s, known[i]) > 0
        /\ \A i, j \in DOMAIN known : i # j => known[i] # known[j]
        /\ \A i, j \in DOMAIN known :
             i < j => LatestUse(s, known[i]) >= LatestUse(s, known[j])
        /\ Len(known) <= SELECTOR_CUT

----------------------------------------------------------------------------
(* job_agent9improved: main and execute_single_step *)

\* The pages the browser shows in a run of job_agent9improved.
Pages9 == {"dialog", "apply", "invalid", "form", "typed"}

\* capture_page_state(driver) of job_agent9improved on page p.
capture_page_state9(p) ==
  [url            |-> IF p \in {"form", "typed"} THEN "/apply/form" ELSE "/apply",
   visible_modals |-> IF p = "dialog" THEN 1 ELSE 0,
   error_messages |-> IF p = "invalid" THEN {"Invalid"} ELSE {},
   body_text_hash |-> IF p = "typed" THEN "h2" ELSE "h1",
   form_values    |-> IF p = "typed" THEN <<"x">> ELSE <<>>]

\* create_page_signature on page p: the URL and the element counts.
PageSignature9(p) == IF p \in {"form", "typed"} THEN "s2" ELSE "s1"

\* save_agent_memory, lines 169-172: the lists are cut before they are written.
save_agent_memory9(mem) ==
  [mem EXCEPT !.action_history = LastN(@, HISTORY_KEEP9),
              !.failure_patterns = LastN(@, FAILURES_KEEP9)]

\* validate_action_success, lines 957-974, and execute_single_step, lines
\* 1213-1218: the verdicts that count as success.
Validated9(result) == result \in {"success", "likely_success", "partial_success"}

InitLoop9 ==
  /\ memory = EmptyMemory9 /\ file = Missing /\ now = 0
  /\ page \in {"dialog", "apply"} /\ dead = FALSE /\ pc = "single_step"
  /\ step_num = 1 /\ attempt = 0
  /\ initial_state = NoRecord /\ page_info = NoRecord /\ last_error = None
  /\ success = FALSE /\ action = NoRecord /\ verdict = NoRecord /\ outcome = None
  /\ env = [raises |-> 0] /\ agent = NoAgent
  /\ ret = NoReturn /\ calls = [k \in StuckKeys |-> <<>>] /\ appended = <<>>
  /\ hist = NoHist

\* execute_single_step, lines 976-1027: the page is read, the action decided,
\* and in interactive mode the user may quit.
BeginSingleStep ==
  /\ pc = "single_step"
  /\ initial_state' = capture_page_state9(page)
  /\ page_info' = [page_signature |-> PageSignature9(page)]
  /\ success' = FALSE
  /\ last_error' = None
  /\ attempt' = 0
  /\ \E a \in ActionTypes9, quit \in BOOLEAN :
       /\ action' = [action_type |-> a]
       /\ IF quit
          THEN /\ ret' = [op |-> "execute_single_step", value |-> FALSE,
                          reason |-> "User quit"]
               /\ pc' = "main_loop"
          ELSE /\ ret' = NoReturn
               /\ pc' = "retry"
  /\ UNCHANGED <<agent, memory, file, now, page, dead, step_num, verdict, outcome, env,
                 calls, appended, hist>>

\* execute_single_step, lines 1029-1136: one pass of the retry loop. The code
\* is executed, the page is validated against the state captured at the start
\* of the step, and the attempt is recorded.
Retry9 ==
  /\ pc = "retry"
  /\ \E p2 \in Pages9, raises \in BOOLEAN :
       /\ raises => env.raises < MaxRaises
       /\ LET v  == states_are_different9(initial_state, capture_page_state9(p2),
                                          action.action_type)
              ok == ~raises /\ Validated9(v.result)
          IN  /\ page' = p2
              /\ now' = now + 3
              /\ env' = [raises |-> env.raises + (IF raises THEN 1 ELSE 0)]
              /\ memory' = record_action9(memory, page_info.page_signature, <<>>, ok, now + 3)
              /\ success' = ok
              /\ last_error' = IF ok THEN last_error ELSE "error"
              /\ attempt' = attempt + 1
              /\ pc' = IF ok \/ attempt + 1 >= MAX_RETRIES THEN "validate" ELSE "retry"
  /\ UNCHANGED <<agent, file, dead, step_num, initial_state, page_info, action, verdict,
                 outcome, ret, calls, appended, hist>>

\* execute_single_step, lines 1138-1218: the final validation against the state
\* captured at the start of the step, the save, and the value returned.
EndSingleStep ==
  /\ pc = "validate"
  /\ LET final == states_are_different9(initial_state, capture_page_state9(page),
                                        action.action_type)
     IN  /\ verdict' = final
         /\ ret' = [op |-> "execute_single_step", value |-> Validated9(final.result),
                    reason |-> final.reason]
  /\ memory' = save_agent_memory9(memory)
  /\ file' = Saved(save_agent_memory9(memory))
  /\ now' = now + 2
  /\ pc' = "main_loop"
  /\ UNCHANGED <<agent, page, dead, step_num, attempt, initial_state, page_info, last_error,
                 success, action, outcome, env, calls, appended, hist>>

\* main, lines 1211-1225: the loop stops when execute_single_step returned
\* False; otherwise it goes on to the next step while steps remain. The store
\* is saved when the loop is left.
MainLoop9 ==
  /\ pc = "main_loop"
  /\ IF ~ret.value
     THEN /\ outcome' = IF ret.reason = "User quit" THEN "quit" ELSE "stopped"
          /\ pc' = "done"
          /\ UNCHANGED step_num
     ELSE IF step_num < MAX_STEPS
     THEN /\ step_num' = step_num + 1
          /\ pc' = "single_step"
          /\ UNCHANGED outcome
     ELSE /\ outcome' = "budget"
          /\ pc' = "done"
          /\ UNCHANGED step_num
  /\ IF pc' = "done"
     THEN memory' = save_agent_memory9(memory) /\ file' = Saved(save_agent_memory9(memory))
     ELSE UNCHANGED <<memory, file>>
  /\ UNCHANGED <<agent, now, page, dead, attempt, initial_state, page_info, last_error,
                 success, action, verdict, env, ret, calls, appended, hist>>

NextLoop9 ==
  \/ BeginSingleStep
  \/ Retry9
  \/ EndSingleStep
  \/ MainLoop9

SpecLoop9 == InitLoop9 /\ [][NextLoop9]_vars

\* C21 as claimed: a step whose attempts all failed does not end the loop
\* while step budget remains. In job_agent9improved: when the run is over
\* with steps left and without a user abort, the last step was a success.
C21_FailedStepGoesOn ==
  (pc = "done" /\ step_num < MAX_STEPS /\ outcome # "quit") => success

----------------------------------------------------------------------------
(* Claims about the steps of a run of main *)

\* C22 as claimed: the detector reports stuck for a key only at its third or a
\* later observation of that key, and only when the last three observations
\* of the key lie within one window of 300 seconds.
C22_StuckOnlyAfterThree ==
  \A k \in StuckKeys : \A i \in DOMAIN calls[k] :
    calls[k][i].r => (i >= THRESHOLD /\ calls[k][i].t - calls[k][i - 2].t < WINDOW)

\* The steps of the program in a run that is left alone: no interrupt, no
\* kill, and the browser session is not lost.
ProgramStep ==
  \/ OpenJob
  \/ BeginStep
  \/ Decide
  \/ Exec
  \/ SaveOpen
  \/ SaveWrite
  \/ Finish
  \/ Continue

\* A run of main in which every driver call and every sleep returns: the
\* program is never stopped for ever at a step it can take.
\* The start of such a run. One exception is left to the generated code: at
\* most one attempt of the run raises.
InitLive ==
  /\ memory = EmptyMemory /\ file = Missing /\ now = 0
  /\ page = "cookie" /\ dead = FALSE /\ pc = "open_job"
  /\ step_num = 0 /\ attempt = 0
  /\ initial_state = NoRecord /\ page_info = NoRecord /\ last_error = None
  /\ success = FALSE /\ action = NoRecord /\ verdict = NoRecord /\ outcome = None
  /\ env = [raises |-> MaxRaises - 1] /\ agent = NoAgent
  /\ ret = NoReturn /\ calls = [k \in StuckKeys |-> <<>>] /\ appended = <<>>
  /\ hist = NoHist

SpecLive == InitLive /\ [][ProgramStep]_vars /\ WF_vars(ProgramStep)

\* C23: every run of main ends; it never is in a step beyond max_steps, no
\* step makes more than MAX_RETRIES attempts and none returns before its first,
\* the run makes at most max_steps * MAX_RETRIES attempts, and the step
\* counter never changes but by growing.
C23_Terminates ==
  /\ <>(pc = "done")
  /\ [](/\ step_num <= max_steps
        /\ attempt <= MAX_RETRIES
        /\ pc \in {"step_save", "step_write", "check"} => attempt >= 1
        /\ hist.attempts <= max_steps * MAX_RETRIES)
  /\ [][step_num' > step_num]_step_num

\* A run that used its whole budget: max_steps steps of MAX_RETRIES attempts.
C23_Witness ==
  /\ pc = "done" /\ outcome = "budget"
  /\ step_num = max_steps
  /\ hist.attempts = max_steps * MAX_RETRIES

\* C24 as claimed, for job_agent10: after record_action every sequence held in
\* action_sequences is at most as long as the cap on action_history, however
\* many attempts were recorded.
C24_SequencesBounded ==
  hist.appends > 0 =>
    \A s \in DOMAIN memory.action_sequences :
      Len(memory.action_sequences[s]) <= HISTORY_CAP

\* C25 as claimed: states_are_different returns (False, no_change) exactly
\* when the two captures are equal in url, visible_modals, input_values and
\* body_text_sample; a difference in one of them gives changed = True.
C25_NoChangeIffEqual ==
  ret.op = "states_are_different" =>
    LET s1 == ret.state1
        s2 == ret.state2
        equal == /\ s1.url = s2.url
                 /\ s1.visible_modals = s2.visible_modals
                 /\ s1.input_values = s2.input_values
                 /\ s1.body_text_sample = s2.body_text_sample
    IN  /\ (~ret.value.changed /\ ret.value.result = "no_change") <=> equal
        /\ ~equal => ret.value.changed

----------------------------------------------------------------------------
(* job_agent_clean: JobApplicationAgent.apply_to_job *)

\* The pages the browser shows in a run of job_agent_clean.
CleanPages ==
  {"job", "login", "login_filled", "wizard", "blank", "thanks", "thanks_more",
   "survey", "thank_title"}

\* What the driver's queries return on each page: the URL and the title, a
\* visible password field, more than 3 text inputs, an email field with a
\* value, a visible button that holds one of click_next's words, one that
\* holds "sign", "submit" or "continue", and a visible <button> with a text.
CleanPageDef(p) ==
  LET base == [url |-> "/job", title |-> "Careers", password |-> FALSE,
               many_inputs |-> FALSE, email_value |-> FALSE,
               next_button |-> FALSE, sign_button |-> FALSE, text_button |-> FALSE]
  IN  CASE p = "job" ->
             [base EXCEPT !.next_button = TRUE, !.text_button = TRUE]
        [] p = "login" ->
             [base EXCEPT !.url = "/login", !.password = TRUE, !.sign_button = TRUE,
                          !.text_button = TRUE]
        [] p = "login_filled" ->
             [base EXCEPT !.url = "/login", !.password = TRUE, !.email_value = TRUE,
                          !.sign_button = TRUE, !.text_button = TRUE]
        [] p = "wizard" ->
             [base EXCEPT !.url = "/apply", !.many_inputs = TRUE, !.next_button = TRUE,
                          !.text_button = TRUE]
        [] p = "blank" ->
             [base EXCEPT !.url = "/apply"]
        [] p = "thanks" ->
             [base EXCEPT !.url = "/apply/success", !.title = "Application"]
        [] p = "thanks_more" ->
             [base EXCEPT !.url = "/apply/success", !.title = "Application",
                          !.next_button = TRUE, !.text_button = TRUE]
        [] p = "survey" ->
             [base EXCEPT !.url = "/apply/success", !.title = "Application",
                          !.many_inputs = TRUE, !.next_button = TRUE,
                          !.text_button = TRUE]
        [] OTHER ->
             [base EXCEPT !.url = "/apply/done", !.title = "Thank you"]

\* The pages a click or the Enter key can lead to.
CleanSuccessors(p) ==
  CASE p = "job"          -> {"login", "wizard"}
    [] p = "login"        -> {"login_filled", "wizard"}
    [] p = "login_filled" -> {"wizard"}
    [] p = "wizard"       -> {"blank", "thanks", "thanks_more", "survey", "thank_title"}
    [] p = "thanks_more"  -> {"job"}
    [] p = "survey"       -> {"thanks"}
    [] OTHER              -> {}

\* PageAnalyzer._determine_type on page p.
determine_type(p) ==
  LET d == CleanPageDef(p)
  IN  IF d.password THEN "sign_in"
      ELSE IF d.many_inputs THEN "application_form"
      ELSE IF UrlHasSuccess(d.url) \/ TitleHasThank(d.title) THEN "confirmation"
      ELSE "unknown"

\* ActionExecutor.click_next on page p: the first button that holds one of
\* the words, or else any visible button with a text, is clicked.
click_next_clean(p) ==
  IF CleanPageDef(p).next_button \/ CleanPageDef(p).text_button
  THEN [issued |-> {"click"}, success |-> TRUE]
  ELSE [issued |-> {}, success |-> FALSE]

\* JobApplicationAgent._execute_step(state) on the state analysed on page p:
\* the driver operations issued and the value returned.
execute_step_clean(p) ==
  LET d == CleanPageDef(p)
      type == determine_type(p)
  IN  IF type = "sign_in"
      THEN IF ~d.email_value
           THEN [issued |-> {"fill", "key"}, success |-> TRUE]
           ELSE IF d.sign_button
                THEN [issued |-> {"click"}, success |-> TRUE]
                ELSE [issued |-> {}, success |-> FALSE]
      ELSE IF type = "application_form"
      THEN [issued |-> {"fill"} \cup click_next_clean(p).issued,
            success |-> click_next_clean(p).success]
      ELSE click_next_clean(p)

\* MemoryManager.remember_page(url, action, success)
remember_page(data, url, type, ok) ==
  [data EXCEPT !.pages_seen =
     [u \in (DOMAIN @) \cup {url} |->
        Append(IF u \in DOMAIN @ THEN @[u] ELSE <<>>, [action |-> type, success |-> ok])
          ]]

\* MemoryManager._load without a file.
CleanMemory == [pages_seen |-> EmptyMap, signed_in |-> FALSE]

InitClean ==
  /\ memory = CleanMemory /\ file = Missing /\ now = 0
  /\ page = "job" /\ dead = FALSE /\ pc = "open_job"
  /\ step_num = 0 /\ attempt = 0
  /\ initial_state = NoRecord /\ page_info = NoRecord /\ last_error = None
  /\ success = FALSE /\ action = NoRecord /\ verdict = NoRecord /\ outcome = None
  /\ env = [raises |-> 0] /\ agent = NoAgent
  /\ ret = NoReturn /\ calls = [k \in StuckKeys |-> <<>>] /\ appended = <<>>
  /\ hist = NoHist

cleanIdle == <<now, dead, attempt, initial_state, page_info, last_error, success,
               action, verdict, env, calls, appended, hist>>

\* apply_to_job, lines 401-406: driver.get(job_url) and the first iteration.
OpenJobClean ==
  /\ pc = "open_job"
  /\ \E p \in {"job", "login"} : page' = p
  /\ step_num' = 1
  /\ pc' = "is_stuck"
  /\ UNCHANGED <<memory, file, outcome, agent, ret, cleanIdle>>

\* The agent's fields after _is_stuck() read the URL of page p.
AfterIsStuck(a, p) ==
  IF CleanPageDef(p).url = a.last_url
  THEN [a EXCEPT !.stuck_counter = @ + 1]
  ELSE [stuck_counter |-> 0, last_url |-> CleanPageDef(p).url]

\* apply_to_job, line 412, and _is_stuck, lines 465-475.
IsStuck ==
  /\ pc = "is_stuck"
  /\ agent' = AfterIsStuck(agent, page)
  /\ ret' = [op |-> "_is_stuck", page |-> page,
             value |-> agent'.stuck_counter >= STUCK_THRESHOLD]
  /\ pc' = IF agent'.stuck_counter >= STUCK_THRESHOLD THEN "recover" ELSE "analyze"
  /\ UNCHANGED <<memory, file, page, step_num, outcome, cleanIdle>>

\* JobApplicationAgent.cleanup after the loop is left: memory.save(), then
\* driver.quit().
Cleanup(how) ==
  /\ file' = Saved(memory')
  /\ outcome' = how
  /\ pc' = "done"

\* _recover_from_stuck, line 483: the counter after _click_any_button clicked.
CounterAfterClick(a) == [a EXCEPT !.stuck_counter = 0]

\* _recover_from_stuck, lines 487-490: the counter after the Escape key.
CounterAfterEscape(a) == a

\* apply_to_job, lines 413-415, and _recover_from_stuck, lines 477-494: any
\* visible button with a text is clicked, or else Escape is sent to the body;
\* when that raises, the loop is left.
RecoverFromStuck ==
  /\ pc = "recover"
  /\ IF CleanPageDef(page).text_button
     THEN /\ \E p2 \in {page} \cup CleanSuccessors(page) : page' = p2
          /\ agent' = CounterAfterClick(agent)
          /\ ret' = [op |-> "_recover_from_stuck", page |-> page, value |-> TRUE,
                     issued |-> {"click"}]
          /\ pc' = "analyze"
          /\ UNCHANGED <<memory, file, outcome>>
     ELSE \E raises \in BOOLEAN :
            /\ ret' = [op |-> "_recover_from_stuck", page |-> page, value |-> ~raises,
                       issued |-> IF raises THEN {} ELSE {"key"}]
            /\ agent' = CounterAfterEscape(agent)
            /\ UNCHANGED <<page, memory>>
            /\ IF raises
               THEN Cleanup("stuck")
               ELSE pc' = "analyze" /\ UNCHANGED <<file, outcome>>
  /\ UNCHANGED <<step_num, cleanIdle>>

\* apply_to_job, lines 417-435: the page is analysed, _execute_step acts on
\* it, the page is remembered (and the store saved), and the loop ends on a
\* page analysed as a confirmation or when the steps are used up.
ApplyStep ==
  /\ pc = "analyze"
  /\ LET e == execute_step_clean(page)
     IN  /\ ret' = [op |-> "_execute_step", page |-> page, type |-> determine_type(page),
                    issued |-> e.issued, value |-> e.success]
         /\ memory' = remember_page(memory, CleanPageDef(page).url,
                                    determine_type(page), e.success)
         /\ \E p2 \in {page} \cup
                      (IF e.issued \cap {"click", "key"} # {}
                       THEN CleanSuccessors(page) ELSE {}) : page' = p2
  /\ IF determine_type(page) = "confirmation"
     THEN Cleanup("success") /\ UNCHANGED step_num
     ELSE IF step_num < CleanMaxSteps
     THEN /\ step_num' = step_num + 1
          /\ pc' = "is_stuck"
          /\ file' = Saved(memory')
          /\ UNCHANGED outcome
     ELSE Cleanup("budget") /\ UNCHANGED step_num
  /\ UNCHANGED <<agent, cleanIdle>>

NextClean ==
  \/ OpenJobClean
  \/ IsStuck
  \/ RecoverFromStuck
  \/ ApplyStep

SpecClean == InitClean /\ [][NextClean]_vars

\* The page is a confirmation page: its URL holds "success" or its title
\* holds "thank".
ConfirmationPage(p) ==
  UrlHasSuccess(CleanPageDef(p).url) \/ TitleHasThank(CleanPageDef(p).title)

\* C26 as claimed: a step of apply_to_job that starts on a confirmation page
\* issues no click, fill or key press, neither in its recovery nor in
\* _execute_step, and ends the loop with success.
C26_ConfirmationEndsQuietly ==
  /\ (ret.op = "_recover_from_stuck" /\ ConfirmationPage(ret.page)) => ret.issued = {}
  /\ (ret.op = "_execute_step" /\ ConfirmationPage(ret.page)) =>
       /\ ret.issued = {}
       /\ pc = "done" /\ outcome = "success"

\* C30 as claimed: when _recover_from_stuck returned True, stuck_counter is 0;
\* when it returned False the loop is over, no further step was executed and
\* cleanup has saved the memory.
C30_RecoveryClearsStuck ==
  ret.op = "_recover_from_stuck" =>
    IF ret.value
    THEN agent.stuck_counter = 0
    ELSE pc = "done" /\ file = Saved(memory)

\* The records that the attempts of the current step left in action_history
\* (the runs of this specification stay below the cap of 100 records).
StepRecords == LastN(memory.action_history, attempt)

\* execute_step is running, or it returned and main has not gone on yet.
InStep == pc \in {"decide", "exec", "step_save", "step_write", "check"}

StepReturned == pc \in {"step_save", "step_write", "check"}

\* C27: every attempt of execute_step appends exactly one record to
\* action_history: the history holds one record per attempt of the run, in
\* the order of the attempts, the step left as many as it made attempts, and
\* each of them carries the signature computed at the start of the step.
C27_OneRecordPerAttempt ==
  /\ Len(memory.action_history) = hist.attempts
  /\ memory.action_history = appended
  /\ InStep =>
       /\ Len(StepRecords) = attempt
       /\ \A i \in 1..Len(StepRecords) :
            StepRecords[i].page_signature = page_info.page_signature

\* A step of two attempts, the first recorded with its exception and the
\* second as a success, on a page that has another signature by now.
C27_Witness ==
  /\ pc = "check" /\ attempt = 2
  /\ StepRecords[1].error = "error"
  /\ StepRecords[2].success
  /\ generate_page_signature(page) # page_info.page_signature

\* The attempts of the current step that were recorded with success = True.
StepSuccesses == {i \in 1..Len(StepRecords) : StepRecords[i].success}

\* C28: in one call of execute_step at most one record with success = True is
\* appended, it is the record of the last attempt made, and the call returns
\* True exactly when there is one; it returns False exactly when MAX_RETRIES
\* attempts were made and all were recorded as failures.
C28_OneSuccessEndsStep ==
  InStep =>
    /\ Cardinality(StepSuccesses) <= 1
    /\ StepSuccesses \subseteq {attempt}
    /\ ~StepReturned => StepSuccesses = {}
    /\ StepReturned =>
         /\ success <=> StepSuccesses # {}
         /\ ~success <=> (attempt = MAX_RETRIES /\ StepSuccesses = {})

\* A step that returned True after a first attempt without effect.
C28_Witness ==
  /\ pc = "check" /\ success /\ attempt = 2
  /\ StepRecords[1].error = "No state change"
  /\ StepRecords[2].success

\* C29 as claimed: an attempt is recorded with success = True only if the
\* page changed between the start of that attempt and its end.
C29_SuccessNeedsOwnChange ==
  [][(pc = "exec" /\ pc' # "done" /\ success') =>
       capture_page_state(page') # capture_page_state(page)]_vars

====
